---- MODULE Spec2Model ----
(***************************************************************************)
(* A model of papercraft: unfold.c (main: adjacency construction over the  *)
(* STL triangles, then the recursive traversal that prints one record per  *)
(* face) and stl_3d.c (stl_3d_parse: the unique-vertex table).             *)
(*                                                                         *)
(* Coordinates are floats in the source.  They are modelled on a grid      *)
(* whose pitch is EPS/2, so that EPS is 2 grid units: two coordinates one  *)
(* unit apart are near-coincident (equal under v3_eq, yet different), two  *)
(* units apart they differ by exactly EPS; float rounding is not modelled. *)
(* Face lengths (sides[], a square root that only the output uses) are     *)
(* left out.  The triangle list holds at least one triangle.               *)
(*                                                                         *)
(* Faces are indexed 0 .. num_triangles-1 as in the source, and a face     *)
(* pointer is the face's index.  A read through a null pointer and a write *)
(* past the end of an allocation are undefined: each is a choice between a *)
(* fault and the access going through.                                     *)
(*                                                                         *)
(* recurse is modelled by its call stack.  One step runs the loop of the   *)
(* running call up to its next call, return or null slot.                  *)
(***************************************************************************)
EXTENDS Integers, Sequences, FiniteSets

\* ------------------------------------------------------------- bounds

\* The largest triangle count of an input file.
MaxTri == 2
\* The largest coordinate of the points v3_eq is applied to on its own.
MaxCoord == 2

\* #define EPS 0.0001, in grid units (the grid pitch is EPS/2).
EPS == 2

\* A null face pointer (calloc'ed memory, an unmatched slot).
NULL == -1

V3(x, y, z) == [k \in 0..2 |-> IF k = 0 THEN x ELSE IF k = 1 THEN y ELSE z]

\* Three points no two of which are equal under v3_eq.
CorePoints == {V3(0,0,0), V3(2,0,0), V3(0,2,0)}

\* A point within EPS of two of the core points, which are not within EPS
\* of each other.
NearPoints == {V3(1,0,0)}

\* The corner points the input triangles are drawn from.  The first two
\* triangles of a file take their corners from all of them, the triangles
\* after these from the core points.
MeshPoints == CorePoints \cup NearPoints

\* The points v3_eq is applied to on its own.
GridPoints == [0..2 -> 0..MaxCoord]

Edges == 0..2

VARIABLES
    num_triangles,  \* hdr->num_triangles
    stl_faces,      \* the input triangles: face -> corner -> point
    next,           \* faces[f].next[e]: a face index, or NULL
    next_edge,      \* faces[f].next_edge[e]
    coplanar,       \* faces[f].coplanar[e]
    used,           \* faces[f].used
    i,              \* main's outer loop index
    diag,           \* the faces reported "missing edges?", in order
    pc,             \* where main is: "build", "start", "recurse", "done", "fault"
    stack,          \* the active calls of recurse: [f, edge], the last is running
    out,            \* the records printed: [f, start_edge]
    depth,          \* recurse's static depth counter
    vertex,         \* stl_3d_parse: stl->vertex[0 .. num_vertex-1], the points
    vrefs,          \* stl_3d_parse: each vertex's (face, corner) list
    num_vertex,     \* stl_3d_parse: stl->num_vertex
    fvertex,        \* stl_3d_parse: stl->face[f].vertex[j], a vertex index or NULL
    pi, pj,         \* stl_3d_parse: the loop indices i and j
    ppc,            \* stl_3d_parse: "idle", "parse", "done", "fault"
    va, vb,         \* the two points handed to v3_eq
    eq_ret          \* what v3_eq returned (-1: not called yet)

mainvars == <<next, next_edge, coplanar, used, i, diag, pc, stack, out, depth>>
parsevars == <<vertex, vrefs, num_vertex, fvertex, pi, pj, ppc>>
eqvars == <<va, vb, eq_ret>>
vars == <<num_triangles, stl_faces, mainvars, parsevars, eqvars>>

Faces == 0..(num_triangles - 1)

\* ------------------------------------------------------------ v3_eq

v3_eq_closed(v1, v2) ==
    LET dx == v1[0] - v2[0]
        dy == v1[1] - v2[1]
        dz == v1[2] - v2[2]
    IN  IF  /\ -EPS <= dx /\ dx <= EPS
            /\ -EPS <= dy /\ dy <= EPS
            /\ -EPS <= dz /\ dz <= EPS
        THEN 1 ELSE 0

v3_eq(v1, v2) ==
    LET dx == v1[0] - v2[0]
        dy == v1[1] - v2[1]
        dz == v1[2] - v2[2]
    IN  IF  /\ -EPS < dx /\ dx < EPS
            /\ -EPS < dy /\ dy < EPS
            /\ -EPS < dz /\ dz < EPS
        THEN 1 ELSE 0

\* ---------------------------------------------------------- edge_eq2

\* Matches an edge against the other triangle's edge in either direction.
edge_eq2_either(t0, t1, e0, e1) ==
    LET v00 == t0[e0]
        v01 == t0[(e0 + 1) % 3]
        v10 == t1[e1]
        v11 == t1[(e1 + 1) % 3]
    IN  IF \/ v3_eq(v00, v11) # 0 /\ v3_eq(v01, v10) # 0
           \/ v3_eq(v00, v10) # 0 /\ v3_eq(v01, v11) # 0
        THEN 1 ELSE 0

edge_eq2(t0, t1, e0, e1) ==
    LET v00 == t0[e0]
        v01 == t0[(e0 + 1) % 3]
        v10 == t1[e1]
        v11 == t1[(e1 + 1) % 3]
    IN  IF v3_eq(v00, v11) # 0 /\ v3_eq(v01, v10) # 0 THEN 1 ELSE 0

coplanar_check(f1, f2) == 0

\* ------------------------------------------- main: adjacency construction

\* The face array as the loops see it.
Graph == [next |-> next, next_edge |-> next_edge, coplanar |-> coplanar]

\* Links one direction only.
LinkOneWay(g, f, f2, edge, edge2) ==
    [next      |-> [g.next EXCEPT ![f][edge] = f2],
     next_edge |-> [g.next_edge EXCEPT ![f][edge] = edge2],
     coplanar  |-> [g.coplanar EXCEPT ![f][edge] =
                        coplanar_check(stl_faces[f], stl_faces[f2])]]

\* Lines 241-247: both directions are linked in one step.
Link(g, f, f2, edge, edge2) ==
    [next      |-> [g.next EXCEPT ![f][edge] = f2, ![f2][edge2] = f],
     next_edge |-> [g.next_edge EXCEPT ![f][edge] = edge2, ![f2][edge2] = edge],
     coplanar  |-> [g.coplanar EXCEPT
                        ![f][edge] = coplanar_check(stl_faces[f], stl_faces[f2]),
                        ![f2][edge2] = coplanar_check(stl_faces[f], stl_faces[f2])]]

\* One iteration of the edge2 loop (lines 235-247).
Edge2Body(g, f, f2, edge, edge2) ==
    IF g.next[f2][edge2] # NULL THEN g
    ELSE IF edge_eq2(stl_faces[f], stl_faces[f2], edge, edge2) = 0 THEN g
    ELSE Link(g, f, f2, edge, edge2)

RECURSIVE Edge2Loop(_, _, _, _, _)
Edge2Loop(g, f, f2, edge, edge2) ==
    IF edge2 >= 3 THEN g
    ELSE Edge2Loop(Edge2Body(g, f, f2, edge, edge2), f, f2, edge, edge2 + 1)

\* The edge loop (lines 228-249): a filled slot of f is skipped.
RECURSIVE EdgeLoop(_, _, _, _)
EdgeLoop(g, f, f2, edge) ==
    IF edge >= 3 THEN g
    ELSE EdgeLoop(IF g.next[f][edge] # NULL THEN g
                  ELSE Edge2Loop(g, f, f2, edge, 0),
                  f, f2, edge + 1)

\* The j loop (lines 220-250): a face is not matched against itself.
RECURSIVE JLoop(_, _, _)
JLoop(g, f, j) ==
    IF j >= num_triangles THEN g
    ELSE JLoop(IF f = j THEN g ELSE EdgeLoop(g, f, j, 0), f, j + 1)

\* Lines 241-247 and 252-255: the links found are stored in the face array,
\* and face i is reported when a slot of it is still empty.
Store(g) ==
    /\ next' = g.next
    /\ next_edge' = g.next_edge
    /\ coplanar' = g.coplanar
    /\ diag' = IF \A e \in Edges : g.next[i][e] # NULL
               THEN diag ELSE Append(diag, i)

\* One iteration of the outer loop (lines 215-256): face i is matched against
\* every other face, then reported when a slot of it is still empty.
BuildFace ==
    /\ pc = "build"
    /\ i < num_triangles
    /\ Store(JLoop(Graph, i, 0))
    /\ i' = i + 1
    /\ pc' = IF i + 1 < num_triangles THEN "build" ELSE "start"
    /\ UNCHANGED <<num_triangles, stl_faces, used, stack, out, depth>>
    /\ UNCHANGED <<parsevars, eqvars>>

\* ------------------------------------------------------------ recurse

\* The start_edge recurse passes on: the caller's own edge index.
PassedEdgeOwn(f, edge) == edge

\* The start_edge recurse passes on (line 164).
PassedEdge(f, edge) == next_edge[f][edge]

IsUsedNever(u, f2) == FALSE

\* Line 161: the test of the neighbour's used flag.
IsUsed(u, f2) == u[f2] # 0

\* Lines 158-162: the loop of recurse(f, ...) passes over the slots, from
\* edge on, whose neighbour is in use, and stops at the first slot that is
\* empty or leads to a face not in use, or at 3.  u is the used flags.
RECURSIVE PassUsed(_, _, _)
PassUsed(f, edge, u) ==
    IF edge < 3 /\ next[f][edge] # NULL /\ IsUsed(u, next[f][edge])
    THEN PassUsed(f, edge + 1, u)
    ELSE edge

\* The call stack with the running call's loop moved on to the slot it
\* stops at.
Run(s, u) == [s EXCEPT ![Len(s)].edge = PassUsed(s[Len(s)].f, s[Len(s)].edge, u)]

\* The call stack with the running call's loop past its current slot.
Advance(s) == [s EXCEPT ![Len(s)].edge = s[Len(s)].edge + 1]

\* Lines 148-162: the entry of recurse(f, start_edge); its loop then runs up
\* to the first slot that is empty or leads to a face not in use.
Enter(f, start_edge) ==
    /\ depth' = depth + 1
    /\ used' = [used EXCEPT ![f] = 1]
    /\ out' = Append(out, [f |-> f, start_edge |-> start_edge])
    /\ stack' = Run(Append(stack, [f |-> f, edge |-> 0]),
                    [used EXCEPT ![f] = 1])

\* Line 262: main calls recurse(&faces[0], 0).
MainRecurse ==
    /\ pc = "start"
    /\ Enter(0, 0)
    /\ pc' = "recurse"
    /\ UNCHANGED <<num_triangles, stl_faces, next, next_edge, coplanar, i, diag>>
    /\ UNCHANGED <<parsevars, eqvars>>

Top == stack[Len(stack)]

\* Lines 160-161 on an empty slot: f2 is a null pointer and f2->used reads
\* through it.  The read faults.
RecurseNullFault ==
    /\ pc = "recurse"
    /\ Top.edge < 3
    /\ next[Top.f][Top.edge] = NULL
    /\ pc' = "fault"
    /\ UNCHANGED <<num_triangles, stl_faces, next, next_edge, coplanar, used,
                   i, diag, stack, out, depth>>
    /\ UNCHANGED <<parsevars, eqvars>>

\* Lines 160-162 on an empty slot, where page zero is readable: the read
\* yields a value that is not zero, the slot is passed over and the loop
\* goes on.
RecurseNullSkip ==
    /\ pc = "recurse"
    /\ Top.edge < 3
    /\ next[Top.f][Top.edge] = NULL
    /\ stack' = Run(Advance(stack), used)
    /\ UNCHANGED <<num_triangles, stl_faces, next, next_edge, coplanar, used,
                   i, diag, pc, out, depth>>
    /\ UNCHANGED <<parsevars, eqvars>>

\* Line 164: recurse(f2, f->next_edge[edge]), on the slot the loop stopped at.
RecurseCall ==
    /\ pc = "recurse"
    /\ Top.edge < 3
    /\ next[Top.f][Top.edge] # NULL
    /\ Enter(next[Top.f][Top.edge], PassedEdge(Top.f, Top.edge))
    /\ UNCHANGED <<num_triangles, stl_faces, next, next_edge, coplanar,
                   i, diag, pc>>
    /\ UNCHANGED <<parsevars, eqvars>>

\* Line 168: the loop is over and recurse returns; its caller's loop goes on
\* from the next edge, and main, when it was the caller, returns 0.
RecurseReturn ==
    /\ pc = "recurse"
    /\ Top.edge >= 3
    /\ stack' = IF Len(stack) = 1 THEN <<>>
                ELSE Run(Advance(SubSeq(stack, 1, Len(stack) - 1)), used)
    /\ pc' = IF Len(stack) = 1 THEN "done" ELSE "recurse"
    /\ UNCHANGED <<num_triangles, stl_faces, next, next_edge, coplanar, used,
                   i, diag, out, depth>>
    /\ UNCHANGED <<parsevars, eqvars>>

\* ------------------------------------------- stl_3d.c: stl_3d_parse

\* v3_eq as stl_3d.c uses it.  It is declared in stl_3d.h, which is not among
\* the sources; it is taken to be the per-axis comparison of unfold.c.
stl_v3_eq(v1, v2) == v3_eq(v1, v2)

\* stl_vertex_find, lines 37-43: the index of the first stored vertex equal
\* to p under v3_eq, or NULL.
RECURSIVE FindFrom(_, _)
FindFrom(p, x) ==
    IF x >= num_vertex THEN NULL
    ELSE IF stl_v3_eq(vertex[x], p) # 0 THEN x
    ELSE FindFrom(p, x + 1)

\* The corner the loops of lines 150-173 are at.
Corner == stl_faces[pi][pj]

\* calloc(num_triangles, sizeof(*stl->vertex)), line 144.
Capacity == num_triangles

\* Lines 166-171, then the loops' step.
Attach(x) ==
    /\ fvertex' = [fvertex EXCEPT ![pi][pj] = x]
    /\ vrefs' = [y \in DOMAIN vrefs \cup {x} |->
                    IF y = x
                    THEN Append(IF x \in DOMAIN vrefs THEN vrefs[x] ELSE <<>>,
                                <<pi, pj>>)
                    ELSE vrefs[y]]
    /\ pj' = (pj + 1) % 3
    /\ pi' = IF pj = 2 THEN pi + 1 ELSE pi
    /\ ppc' = IF pj = 2 /\ pi + 1 >= num_triangles THEN "done" ELSE "parse"

\* Lines 53-54: the point is stored at vertices[num_vertex++].
Insert ==
    /\ vertex' = [y \in 0..num_vertex |->
                    IF y < num_vertex THEN vertex[y] ELSE Corner]
    /\ num_vertex' = num_vertex + 1

\* The corner is a vertex seen before.
ParseFound ==
    /\ ppc = "parse"
    /\ FindFrom(Corner, 0) # NULL
    /\ Attach(FindFrom(Corner, 0))
    /\ UNCHANGED <<vertex, num_vertex>>
    /\ UNCHANGED <<num_triangles, stl_faces, mainvars, eqvars>>

\* The corner is a new vertex and the array has room for it.
ParseInsert ==
    /\ ppc = "parse"
    /\ FindFrom(Corner, 0) = NULL
    /\ num_vertex < Capacity
    /\ Insert
    /\ Attach(num_vertex)
    /\ UNCHANGED <<num_triangles, stl_faces, mainvars, eqvars>>

\* The corner is a new vertex and the array is full: line 54 writes past the
\* end of the allocation.  The write lands in the heap after the array and
\* the loops go on.
ParseOverflowWrite ==
    /\ ppc = "parse"
    /\ FindFrom(Corner, 0) = NULL
    /\ num_vertex >= Capacity
    /\ Insert
    /\ Attach(num_vertex)
    /\ UNCHANGED <<num_triangles, stl_faces, mainvars, eqvars>>

\* The corner is a new vertex and the array is full: the write past the end
\* of the allocation faults.
ParseOverflowFault ==
    /\ ppc = "parse"
    /\ FindFrom(Corner, 0) = NULL
    /\ num_vertex >= Capacity
    /\ num_vertex' = num_vertex + 1
    /\ ppc' = "fault"
    /\ UNCHANGED <<vertex, vrefs, fvertex, pi, pj>>
    /\ UNCHANGED <<num_triangles, stl_faces, mainvars, eqvars>>

\* ------------------------------------------------------ v3_eq, called

\* A call of v3_eq on two points.
CallV3Eq ==
    /\ eq_ret = -1
    /\ eq_ret' = v3_eq(va, vb)
    /\ UNCHANGED <<va, vb>>
    /\ UNCHANGED <<num_triangles, stl_faces, mainvars, parsevars>>

\* ------------------------------------------------------ specifications

Triangles == [0..2 -> MeshPoints]

CoreTriangles == [0..2 -> CorePoints]

\* The file read at line 189: a triangle count and that many triangles.
InputInit ==
    /\ num_triangles \in 1..MaxTri
    /\ \E a \in [{f \in Faces : f <= 1} -> Triangles],
          b \in [{f \in Faces : f > 1} -> CoreTriangles] :
            stl_faces = [f \in Faces |-> IF f <= 1 THEN a[f] ELSE b[f]]

MainIdle ==
    /\ next = <<>> /\ next_edge = <<>> /\ coplanar = <<>> /\ used = <<>>
    /\ i = 0 /\ diag = <<>> /\ pc = "idle" /\ stack = <<>> /\ out = <<>>
    /\ depth = 0

ParseIdle ==
    /\ vertex = <<>> /\ vrefs = <<>> /\ num_vertex = 0 /\ fvertex = <<>>
    /\ pi = 0 /\ pj = 0 /\ ppc = "idle"

EqIdle ==
    /\ va = V3(0,0,0) /\ vb = V3(0,0,0) /\ eq_ret = -1

\* unfold.c: the state when main reaches line 215 (faces is calloc'ed).
Init ==
    /\ InputInit
    /\ next = [f \in Faces |-> [e \in Edges |-> NULL]]
    /\ next_edge = [f \in Faces |-> [e \in Edges |-> 0]]
    /\ coplanar = [f \in Faces |-> [e \in Edges |-> 0]]
    /\ used = [f \in Faces |-> 0]
    /\ i = 0
    /\ diag = <<>>
    /\ pc = "build"
    /\ stack = <<>>
    /\ out = <<>>
    /\ depth = 0
    /\ ParseIdle
    /\ EqIdle

Next ==
    \/ BuildFace
    \/ MainRecurse
    \/ RecurseNullFault
    \/ RecurseNullSkip
    \/ RecurseCall
    \/ RecurseReturn

Spec == Init /\ [][Next]_vars

\* stl_3d.c: the state when stl_3d_parse reaches line 150.
InitParse ==
    /\ InputInit
    /\ MainIdle
    /\ vertex = <<>>
    /\ vrefs = <<>>
    /\ num_vertex = 0
    /\ fvertex = [f \in Faces |-> [j \in 0..2 |-> NULL]]
    /\ pi = 0
    /\ pj = 0
    /\ ppc = "parse"
    /\ EqIdle

NextParse ==
    \/ ParseFound
    \/ ParseInsert
    \/ ParseOverflowWrite
    \/ ParseOverflowFault

SpecParse == InitParse /\ [][NextParse]_vars

\* v3_eq on its own: any two points of the grid.
InitEq ==
    /\ num_triangles = 0
    /\ stl_faces = <<>>
    /\ MainIdle
    /\ ParseIdle
    /\ va \in GridPoints
    /\ vb \in GridPoints
    /\ eq_ret = -1

NextEq == CallV3Eq

SpecEq == InitEq /\ [][NextEq]_vars

\* ------------------------------------------------------------- claims

\* Vertex equality as the specification words it: on every axis the
\* difference lies strictly within EPS.
Near(p, q) ==
    \A k \in 0..2 : -EPS < p[k] - q[k] /\ p[k] - q[k] < EPS

\* Edge e of face f and edge e2 of face j join the same two points and run
\* in opposite directions.
Opposite(f, e, j, e2) ==
    /\ Near(stl_faces[f][e], stl_faces[j][(e2 + 1) % 3])
    /\ Near(stl_faces[f][(e + 1) % 3], stl_faces[j][e2])

\* Edge e of face f and edge e2 of face j join the same two points and run
\* in the same direction.
SameWay(f, e, j, e2) ==
    /\ Near(stl_faces[f][e], stl_faces[j][e2])
    /\ Near(stl_faces[f][(e + 1) % 3], stl_faces[j][(e2 + 1) % 3])

\* The three corners of face f are three different points.
Proper(f) ==
    /\ ~Near(stl_faces[f][0], stl_faces[f][1])
    /\ ~Near(stl_faces[f][1], stl_faces[f][2])
    /\ ~Near(stl_faces[f][2], stl_faces[f][0])

\* Adjacency construction is over.
Built == pc \in {"start", "recurse", "done", "fault"}

\* A closed, manifold, consistently wound mesh: every edge of every face is
\* shared with exactly one edge of another face, which runs the other way.
Manifold ==
    \A f \in Faces, e \in Edges :
        Cardinality({x \in Faces \X Edges :
                        x[1] # f /\ Opposite(f, e, x[1], x[2])}) = 1

\* The faces linked to a face of S, and S.
Grow(S) ==
    S \cup ({next[f][e] : f \in S, e \in Edges} \ {NULL})

RECURSIVE Closure(_, _)
Closure(S, n) == IF n = 0 THEN S ELSE Closure(Grow(S), n - 1)

\* The faces a walk over filled slots reaches from the root, faces[0].
Reachable == Closure({0}, num_triangles)

Visited == {f \in Faces : used[f] # 0}

\* C1.  Once adjacency construction is over, the links are symmetric: if
\* A.next[e] = B and A.next_edge[e] = e2 then B.next[e2] = A and
\* B.next_edge[e2] = e, for every triangle list.
C1_Symmetry ==
    Built =>
        \A A \in Faces, e \in Edges :
            next[A][e] # NULL =>
                /\ next[next[A][e]][next_edge[A][e]] = A
                /\ next_edge[next[A][e]][next_edge[A][e]] = e

\* C2.  For a closed, manifold, consistently wound mesh every face has its
\* three slots filled when adjacency construction is over, and no face is
\* reported as missing edges; nothing after construction changes a slot or
\* adds a report.
C2_ManifoldFilled ==
    /\ []((pc = "start" /\ Manifold) =>
            /\ \A f \in Faces, e \in Edges : next[f][e] # NULL
            /\ diag = <<>>)
    /\ [][Built => next' = next /\ diag' = diag]_vars

C2_Witness ==
    /\ pc = "done"
    /\ num_triangles = 2
    /\ Manifold
    /\ Proper(0)
    /\ \A f \in Faces, e \in Edges : next[f][e] # NULL

\* C3.  When some slot is left empty, the traversal still runs to its end
\* without a fault, and visits exactly the faces reachable from the root.
C3_GapsSurvived ==
    (Built /\ \E f \in Faces, e \in Edges : next[f][e] = NULL) =>
        /\ pc # "fault"
        /\ pc = "done" => Visited = Reachable

\* C4.  A used flag, once set, stays set; a record is printed only for a
\* face whose flag was clear, and sets it; a flag is set only with a record.
C4_VisitOnce ==
    [][ /\ \A f \in Faces : used[f] # 0 => used'[f] # 0
        /\ out' # out =>
              /\ Len(out') = Len(out) + 1
              /\ SubSeq(out', 1, Len(out)) = out
              /\ used[out'[Len(out')].f] = 0
              /\ used' = [used EXCEPT ![out'[Len(out')].f] = 1]
        /\ used' # used => out' # out
        /\ \A a, b \in 1..Len(out') : out'[a].f = out'[b].f => a = b
      ]_vars

C4_Witness ==
    /\ pc = "done"
    /\ Len(out) = 2
    /\ \A e \in Edges : next[0][e] = 1

\* C5.  When the graph built is connected, the traversal ends, and ends with
\* every face visited.
C5_ConnectedAllVisited ==
    (Built /\ Reachable = Faces) =>
        /\ pc # "fault"
        /\ pc = "done" => Visited = Faces

\* C6.  The root's record carries an entering edge that is none of 0, 1, 2.
C6_RootSentinel ==
    Len(out) >= 1 => out[1].start_edge \notin Edges

\* C7.  A record printed for a face other than the root is printed on entering
\* it from the running call's face F through slot k: F is in use, the slots
\* below k are empty or lead to faces in use, the face entered was not in use,
\* and the edge printed is F.next_edge[k], the entered face's own edge back
\* to F.
C7_EnteringEdge ==
    [][ (out' # out /\ Len(out) >= 1) =>
            LET F == stack[Len(stack)].f
                k == stack[Len(stack)].edge
                G == out'[Len(out')].f
                e == out'[Len(out')].start_edge
            IN  /\ used[F] # 0
                /\ k \in Edges
                /\ next[F][k] = G
                /\ used[G] = 0
                /\ \A k2 \in 0..(k - 1) :
                      next[F][k2] = NULL \/ used[next[F][k2]] # 0
                /\ e = next_edge[F][k]
                /\ next[G][e] = F
      ]_vars

C7_Witness ==
    /\ pc = "done"
    /\ Len(out) = 2
    /\ next[0][0] = out[2].f
    /\ out[2].start_edge = next_edge[0][0]
    /\ next_edge[0][0] # 0

\* C8.  v3_eq returns 1 exactly when every axis difference lies strictly
\* between -EPS and EPS; two points EPS apart on one axis and equal on the
\* other two are different.
C8_StrictPerAxis ==
    eq_ret # -1 =>
        /\ eq_ret = 1 <=> \A k \in 0..2 : -EPS < va[k] - vb[k] /\ va[k] - vb[k] < EPS
        /\ eq_ret \in {0, 1}
        /\ \A k \in 0..2 :
              ( /\ va[k] - vb[k] \in {EPS, -EPS}
                /\ \A m \in 0..2 \ {k} : va[m] = vb[m] ) => eq_ret = 0

C8_Witness ==
    /\ eq_ret = 0
    /\ va[0] - vb[0] = EPS
    /\ va[1] = vb[1]
    /\ va[2] = vb[2]

\* Every filled slot of every face leads to another face, through edges that
\* join the same two points and run in opposite directions.
LinksJustified ==
    \A f \in Faces, e \in Edges :
        next[f][e] # NULL =>
            /\ next[f][e] # f
            /\ next[f][e] \in Faces
            /\ Opposite(f, e, next[f][e], next_edge[f][e])

\* C9.  Every link, during adjacency construction and when it is over, is
\* between two different faces whose linked edges join the same two points
\* and run in opposite directions, so that edges which only run the same way
\* are not linked; the links stay as they are after construction.
C9_LinksOpposite ==
    /\ [](pc \in {"build", "start"} => LinksJustified)
    /\ [][Built => next' = next /\ next_edge' = next_edge]_vars

C9_Witness ==
    /\ pc = "start"
    /\ \E f \in Faces, e \in Edges : next[f][e] # NULL
    /\ \E e, e2 \in Edges :
          /\ SameWay(0, e, 1, e2)
          /\ ~Opposite(0, e, 1, e2)
          /\ next[0][e] = NULL
          /\ next[1][e2] = NULL

\* C10.  stl_3d_parse never holds more vertices than the array it allocated
\* has room for, and no insertion writes outside the array.
C10_VertexCapacity ==
    /\ num_vertex <= num_triangles
    /\ ppc # "fault"

====
